---- MODULE Spec2Model ----
(***************************************************************************)
(* Image-to-video converter: Scripts/converter.py driven either directly   *)
(* (as Scripts/test_conversion.py and converter.py's __main__ do) or by    *)
(* the background worker of Scripts/app.py.                                *)
(*                                                                         *)
(* Numbers.  video_duration is kept in half seconds, so that every         *)
(* duration the model draws is exactly representable as a float and        *)
(* int(video_duration * fps) is the exact floor.  The segment arithmetic   *)
(* of the frame loop is done by the code in floats:                        *)
(*     segment_duration = total_frames / n                                 *)
(*     int(frame_idx / segment_duration), int(k * segment_duration)        *)
(* For n in 1..3 these agree with the exact integer quotients              *)
(* (frame_idx*n) \div total_frames and (k*total_frames) \div n (an exact   *)
(* quotient that is an integer is computed exactly, because then           *)
(* total_frames/n or the whole product is representable), so the model     *)
(* uses the integer quotients.  progress = frame_idx/max(total_frames-1,1) *)
(* is kept as the pair numerator/denominator.                              *)
(***************************************************************************)
EXTENDS Integers, Sequences, FiniteSets, TLC

\* ---------------------------------------------------------------- bounds
MaxImages == 2
MaxPlanLen == 4
MaxFps == 5
MaxHalfSeconds == 4
MaxFaults == 1
MaxClock == 2

\* ------------------------------------------------------ program constants
QUALITY_PRESETS ==
    [q \in {"4K", "1080p", "720p", "480p", "360p"} |->
        CASE q = "4K"    -> <<3840, 2160>>
          [] q = "1080p" -> <<1920, 1080>>
          [] q = "720p"  -> <<1280, 720>>
          [] q = "480p"  -> <<854, 480>>
          [] q = "360p"  -> <<640, 360>>]

\* keys of the motion function mapping
motion_functions ==
    {"subtle", "ken-burns", "360-pan", "tilt-shift", "zoom-in", "zoom-out",
     "dolly-zoom", "wave", "radial-blur", "rotation", "flip", "none"}

\* --------------------------------------------------------- input domains
\* identifiers a caller may pass: three recognized ones and an unknown one
InputIds == {"360-pan", "zoom-in", "none", "foo"}
QualityInputs == {"360p", "doesnotexist"}
DecodeOutcomes == {"cv2", "pil", "unreadable"}

\* the image files a directory may hold, in sorted order of their paths
AllFiles ==
    << [base |-> "a", ext |-> "jpg"], [base |-> "a", ext |-> "png"],
       [base |-> "b", ext |-> "jpg"], [base |-> "b", ext |-> "png"] >>

\* a pixel buffer, stood for by one pixel: bit depth, channel values, and the
\* effect call that produced it ("source" for decoded or copied pixels)
Buffer(depth, px) == [depth |-> depth, px |-> px, by |-> "source", at |-> <<0, 0>>]
NoBuffer == Buffer(0, <<>>)

\* what cv2.imread(path, IMREAD_UNCHANGED) can give: 8-bit colour, 8-bit
\* grey (two-dimensional), 16-bit colour
SourceBuffers == {Buffer(8, <<10, 20, 30>>), Buffer(8, <<10>>), Buffer(16, <<300, 20, 30>>)}
DefaultBuffer == Buffer(8, <<10, 20, 30>>)

\* a motion_types argument: a single string or a list
StrArg(s) == [kind |-> "str", val |-> <<s>>]
ListArg(l) == [kind |-> "list", val |-> l]
ListsUpTo(n) == UNION {[1..k -> InputIds] : k \in 0..n}
MotionArgs == {StrArg(s) : s \in InputIds} \cup {ListArg(l) : l \in ListsUpTo(MaxPlanLen)}

\* --------------------------------------------------------- pure helpers
Max(a, b) == IF a >= b THEN a ELSE b
Min(a, b) == IF a <= b THEN a ELSE b
Take(s, n) == SubSeq(s, 1, Min(n, Len(s)))
Recognized(mt) == mt \in motion_functions

\* quality fallback
ResolveQuality(q) == IF q \notin DOMAIN QUALITY_PRESETS THEN "1080p" ELSE q

\* int(video_duration * fps), video_duration given in half seconds
TotalFrames(halves, fps) == (halves * fps) \div 2

NormalizePlanNoCut(arg) ==
    LET kept == SelectSeq(arg.val, Recognized)
    IN  IF kept = <<>> THEN <<"none">> ELSE kept

\* normalisation of motion_types: wrap a string, cut a list to three, filter,
\* fall back to ['none']
NormalizePlan(arg) ==
    LET cut == IF arg.kind = "str" THEN arg.val ELSE Take(arg.val, 3)
        kept == SelectSeq(cut, Recognized)
    IN  IF kept = <<>> THEN <<"none">> ELSE kept

\* the segment a frame belongs to
current_segment(frame_idx, total_frames, n) ==
    Min((frame_idx * n) \div total_frames, n - 1)

segment_start(seg, total_frames, n) == (seg * total_frames) \div n

segment_end_equal(seg, total_frames, n) ==
    segment_start(seg, total_frames, n) + total_frames \div n

segment_end(seg, total_frames, n) == ((seg + 1) * total_frames) \div n

frame_in_segment(frame_idx, total_frames, n) ==
    frame_idx - segment_start(current_segment(frame_idx, total_frames, n), total_frames, n)

frames_in_segment(frame_idx, total_frames, n) ==
    LET s == current_segment(frame_idx, total_frames, n)
    IN  segment_end(s, total_frames, n) - segment_start(s, total_frames, n)

\* denominator of progress inside every effect
ProgressDen(local_total) == Max(local_total - 1, 1)

\* width of tiled[:, start_x:start_x + width] for the 360-degree pan
apply_360_pan_effect(width, local_idx, local_total) ==
    LET tiled_width == 3 * width
        start_x == ((tiled_width - width) * local_idx) \div ProgressDen(local_total)
    IN  Max(0, Min(start_x + width, tiled_width) - Min(start_x, tiled_width))

\* width of the frame an effect returns; every effect but the pan warps or
\* remaps into a (width, height) destination, 'none' leaves the copy alone
EffectWidth(mt, width, local_idx, local_total) ==
    IF mt = "360-pan" THEN apply_360_pan_effect(width, local_idx, local_total)
    ELSE width

\* output_path: f"{base_name}_motion_{motion_suffix}_{quality}.avi" in the
\* output directory.  No identifier and no quality name contains "motion", so
\* the string determines the three parts and is kept as their record.
OutputPath(output_dir, file, mts, q) ==
    [dir |-> output_dir, base_name |-> file.base, motion_suffix |-> Take(mts, 3),
     quality |-> q]

\* the decoded image: OpenCV keeps depth and channels of the file, Pillow
\* converts to 8-bit RGB, which cvtColor reverses to BGR
Reverse(px) == [k \in 1..Len(px) |-> px[Len(px) + 1 - k]]
DecodeBuffer(file, kind) ==
    IF kind = "cv2" THEN file.buf
    ELSE Buffer(8, Reverse([k \in 1..3 |-> file.buf.px[Min(k, Len(file.buf.px))] % 256]))

\* the frame an effect call returns from a copy of the image
Transformed(buf, mt, local_idx, local_total) ==
    [depth |-> IF mt \in {"tilt-shift", "radial-blur"} THEN 8 ELSE buf.depth,
     px |-> buf.px, by |-> mt, at |-> <<local_idx, local_total>>]

\* three channels (cvtColor GRAY2BGR / BGRA2BGR), then astype(np.uint8)
NormalizeFrame(buf) ==
    LET bgr == IF Len(buf.px) = 1 THEN <<buf.px[1], buf.px[1], buf.px[1]>>
               ELSE IF Len(buf.px) = 4 THEN SubSeq(buf.px, 1, 3)
               ELSE buf.px
    IN  [buf EXCEPT !.depth = 8, !.px = [k \in 1..Len(bgr) |-> bgr[k] % 256]]

\* the indices range(total_frames) runs through
FrameRangeShort(total) == 0..(total - 2)

FrameRange(total) == 0..(total - 1)

\* first argument of the progress callback
CallbackCurrentCount(idx) == idx

CallbackCurrent(idx) == idx + 1

\* progress stored by the worker's callback
JobProgress(current, total) == (current * 100) \div total

\* the image loader: OpenCV first, Pillow as the fallback when it is installed
read_image_with_fallback(kind, pil_available) ==
    IF kind = "cv2" THEN TRUE
    ELSE IF pil_available THEN kind = "pil" ELSE FALSE

DecodesCv2Only(kind, pil_available) == kind = "cv2"

\* the driver's own second Pillow attempt on an image the loader gave up on
Decodes(kind, pil_available) ==
    \/ read_image_with_fallback(kind, pil_available)
    \/ pil_available /\ kind = "pil"

\* ------------------------------------------------------------ the calls
\* A call: who calls (the worker thread of app.py or a script), the files of
\* the input directory in sorted order (each with the way it decodes), and the
\* arguments.  The calls checked are three families around a base call, each
\* varying the arguments one group of operations depends on:
\*   PlanCalls      every motion_types argument,
\*   TimelineCalls  every frame count, every plan of one to three recognized
\*                  effects, every quality,
\*   BatchCalls     every input directory and Pillow availability,
\*   PixelCalls     every kind of source pixels.
Call(who, imgs, pil, arg, halves, rate, q) ==
    [caller |-> who, images |-> imgs, pil |-> pil, arg |-> arg,
     halves |-> halves, fps |-> rate, quality |-> q,
     files |-> [k \in 1..Len(imgs) |->
                  [base |-> AllFiles[k].base, ext |-> AllFiles[k].ext, buf |-> DefaultBuffer]]]

Callers == {"script", "batch_worker"}
ImageLists == UNION {[1..k -> DecodeOutcomes] : k \in 0..MaxImages}
EffectPlans == {l \in ListsUpTo(3) : l # <<>> /\ \A k \in 1..Len(l) : l[k] \in motion_functions}

PlanCalls ==
    {Call(who, <<"cv2">>, TRUE, arg, 1, 2, "360p") :
        who \in Callers, arg \in MotionArgs}

TimelineCalls ==
    {Call("script", <<"cv2">>, TRUE, ListArg(l), hf[1], hf[2], q) :
        l \in EffectPlans, hf \in (1..MaxHalfSeconds) \X (1..MaxFps), q \in QualityInputs}

\* the listings of a directory with k files: increasing positions in AllFiles
Listings(k) ==
    {ix \in [1..k -> 1..Len(AllFiles)] : \A i \in 1..k : \A j \in 1..k : i < j => ix[i] < ix[j]}

BatchCalls ==
    UNION {
        {[Call(who, imgs, pil, ListArg(<<"zoom-in">>), 2, rate, "360p") EXCEPT
             !.files = [k \in 1..Len(imgs) |->
                          [base |-> AllFiles[ix[k]].base, ext |-> AllFiles[ix[k]].ext,
                           buf |-> DefaultBuffer]]] :
            who \in Callers, pil \in BOOLEAN, rate \in 1..2, ix \in Listings(Len(imgs))} :
        imgs \in ImageLists}

PixelCalls ==
    {[Call("script", <<kind>>, TRUE, ListArg(l), 2, 2, "360p") EXCEPT
         !.files = <<[base |-> "a", ext |-> "png", buf |-> b]>>] :
        kind \in {"cv2", "pil"}, b \in SourceBuffers,
        l \in {<<"none">>, <<"zoom-in", "none">>, <<"none", "tilt-shift">>}}

\* batch_start never hands a string to the worker
Calls == {c \in PlanCalls \cup TimelineCalls \cup BatchCalls \cup PixelCalls :
             c.caller = "batch_worker" => c.arg.kind = "list"}

\* ----------------------------------------------------------------- state
VARIABLES
    caller,          \* who called create_video_per_image_with_motion
    JOBS,            \* the worker's entry of the job registry
    images,          \* files of the input directory, sorted
    PIL_AVAILABLE,   \* module flag
    arg,             \* the motion_types argument as passed
    video_duration,  \* in half seconds
    fps,
    quality,         \* the caller's name, replaced by the effective preset
    pc,              \* position of the call
    total_frames,
    motion_types,    \* the effective plan, <<>> before normalisation
    img_idx,         \* enumerate(images) position, 0-based
    frame_idx,       \* range(total_frames) position
    writer,          \* "none", "open" or "unopened"
    file_exists,     \* a file exists at the current output_path
    created_videos,
    callbacks,       \* calls of progress_callback: <<current, total>>
    log,             \* calls made on video writers, in order
    faults,          \* encoder failures so far
    result,          \* the value returned
    files,           \* name and pixels of each file of images
    quality_name,    \* the quality argument as passed
    img,             \* the decoded and resized image
    written,         \* the frames handed to writer.write, with their pixels
    now,             \* app.py: the clock batch_start reads, in microseconds
    threads,         \* app.py: the worker threads batch_start has started
    response,        \* app.py: the last answer of the status route
    status_log       \* app.py: the values stored in each job's 'status', in order

vars == <<caller, JOBS, images, PIL_AVAILABLE, arg, video_duration, fps, quality,
          pc, total_frames, motion_types, img_idx, frame_idx, writer, file_exists,
          created_videos, callbacks, log, faults, result, files, quality_name,
          img, written, now, threads, response, status_log>>

inputs == <<caller, images, PIL_AVAILABLE, arg, video_duration, fps, files, quality_name>>

pixels == <<img, written>>

app == <<now, threads, response, status_log>>

\* no request has been made
NoThread == [pc |-> "unborn"]
NoResponse == [code |-> 0]
AppIdle ==
    /\ now = 0
    /\ threads = [t \in {1, 2} |-> NoThread]
    /\ response = NoResponse
    /\ status_log = <<>>

NoResult == [shape |-> "none", videos |-> <<>>, metadata |-> <<>>]
NoJob == [status |-> "none", progress |-> 0, output |-> <<>>, metadata |-> <<>>,
          message |-> "none"]
QueuedJob == [status |-> "queued", progress |-> 0, output |-> <<>>, metadata |-> <<>>,
              message |-> "Job queued"]

Event(op, image, idx, w, h, ok) ==
    [op |-> op, img |-> image, idx |-> idx, w |-> w, h |-> h, ok |-> ok]

target_size == QUALITY_PRESETS[quality]

Init ==
    \E c \in Calls :
        /\ caller = c.caller
        /\ JOBS = IF c.caller = "batch_worker" THEN QueuedJob ELSE NoJob
        /\ images = c.images
        /\ PIL_AVAILABLE = c.pil
        /\ arg = c.arg
        /\ video_duration = c.halves
        /\ fps = c.fps
        /\ quality = c.quality
        /\ pc = IF c.caller = "batch_worker" THEN "queued" ELSE "start"
        /\ total_frames = 0
        /\ motion_types = <<>>
        /\ img_idx = 0
        /\ frame_idx = 0
        /\ writer = "none"
        /\ file_exists = FALSE
        /\ created_videos = <<>>
        /\ callbacks = <<>>
        /\ log = <<>>
        /\ faults = 0
        /\ result = NoResult
        /\ files = c.files
        /\ quality_name = c.quality
        /\ img = NoBuffer
        /\ written = <<>>
        /\ AppIdle

\* ------------------------------------------------- app.py: batch_worker
\* the worker thread starts: the job is marked running and the converter is
\* called
batch_worker_run ==
    /\ pc = "queued"
    /\ JOBS' = [JOBS EXCEPT !.status = "running"]
    /\ pc' = "start"
    /\ UNCHANGED <<inputs, app, pixels, quality, total_frames, motion_types, img_idx, frame_idx,
                   writer, file_exists, created_videos, callbacks, log, faults, result>>

\* videos, metadata = create_video_per_image_with_motion(...): a value that is
\* not a pair cannot be unpacked (ValueError) and lands in the except clause
batch_worker_done ==
    /\ caller = "batch_worker"
    /\ pc = "returned"
    /\ JOBS' = IF result.shape = "pair"
               THEN [JOBS EXCEPT !.status = "done", !.progress = 100,
                                 !.output = result.videos,
                                 !.metadata = result.metadata,
                                 !.message = "Successfully created"]
               ELSE [JOBS EXCEPT !.status = "error", !.message = "ValueError"]
    /\ pc' = "exit"
    /\ UNCHANGED <<inputs, app, pixels, quality, total_frames, motion_types, img_idx, frame_idx,
                   writer, file_exists, created_videos, callbacks, log, faults, result>>

\* except Exception: an error raised by the converter ends the job
batch_worker_except ==
    /\ caller = "batch_worker"
    /\ pc = "raised"
    /\ JOBS' = [JOBS EXCEPT !.status = "error", !.message = "exception"]
    /\ pc' = "exit"
    /\ UNCHANGED <<inputs, app, pixels, quality, total_frames, motion_types, img_idx, frame_idx,
                   writer, file_exists, created_videos, callbacks, log, faults, result>>

\* ------------------------- converter.py: create_video_per_image_with_motion
\* no image in the input directory: return []
ReturnEmpty ==
    /\ pc = "start"
    /\ images = <<>>
    /\ quality' = ResolveQuality(quality)
    /\ result' = [shape |-> "list", videos |-> <<>>, metadata |-> <<>>]
    /\ pc' = "returned"
    /\ UNCHANGED <<inputs, app, pixels, JOBS, total_frames, motion_types, img_idx, frame_idx,
                   writer, file_exists, created_videos, callbacks, log, faults>>

\* quality fallback, frame count, normalisation of the plan
Prepare ==
    /\ pc = "start"
    /\ images # <<>>
    /\ quality' = ResolveQuality(quality)
    /\ total_frames' = TotalFrames(video_duration, fps)
    /\ created_videos' = <<>>
    /\ motion_types' = NormalizePlan(arg)
    /\ img_idx' = 0
    /\ pc' = "loop"
    /\ UNCHANGED <<inputs, app, pixels, JOBS, frame_idx, writer, file_exists, callbacks, log,
                   faults, result>>

\* an image no decoder reads: print and continue
SkipImage ==
    /\ pc = "loop"
    /\ img_idx < Len(images)
    /\ ~Decodes(images[img_idx + 1], PIL_AVAILABLE)
    /\ img_idx' = img_idx + 1
    /\ UNCHANGED <<inputs, app, pixels, JOBS, quality, pc, total_frames, motion_types, frame_idx,
                   writer, file_exists, created_videos, callbacks, log, faults, result>>

\* cv2.resize changes the size of the image, not the kind of its pixels
Resized(buf) == buf

\* the output file of the current image
output_path == OutputPath("Output", files[img_idx + 1], motion_types, quality)

\* decode, resize, build the output path and construct the VideoWriter.  The
\* constructor opens the file; when it cannot, it either raises or returns a
\* writer that is not opened, and a file of an earlier run may or may not be
\* lying at the path.
OpenWriter ==
    /\ pc = "loop"
    /\ img_idx < Len(images)
    /\ Decodes(images[img_idx + 1], PIL_AVAILABLE)
    /\ frame_idx' = 0
    /\ img' = Resized(DecodeBuffer(files[img_idx + 1], images[img_idx + 1]))
    /\ \/ /\ writer' = "open"
          /\ file_exists' = TRUE
          /\ log' = Append(log, Event("open", img_idx, 0, target_size[1], target_size[2], TRUE))
          /\ pc' = "frames"
          /\ UNCHANGED faults
       \/ /\ faults < MaxFaults
          /\ faults' = faults + 1
          /\ \E stale \in (IF \E v \in 1..Len(created_videos) :
                                   created_videos[v].path = output_path
                            THEN {TRUE} ELSE BOOLEAN) :
                /\ writer' = "unopened"
                /\ file_exists' = stale
                /\ log' = Append(log, Event("open", img_idx, 0, target_size[1], target_size[2], FALSE))
                /\ pc' = "frames"
       \/ /\ faults < MaxFaults
          /\ faults' = faults + 1
          /\ pc' = "raised"
          /\ UNCHANGED <<writer, file_exists, log>>
    /\ UNCHANGED <<inputs, app, written, JOBS, quality, total_frames, motion_types, img_idx,
                   created_videos, callbacks, result>>

\* the frame the loop body hands to writer.write for frame_idx
SynthFrame(idx) ==
    LET n == Len(motion_types)
        seg == current_segment(idx, total_frames, n)
        mt == motion_types[seg + 1]
        li == frame_in_segment(idx, total_frames, n)
        lt == frames_in_segment(idx, total_frames, n)
    IN  [seg |-> seg, effect |-> mt, local_idx |-> li, local_total |-> lt,
         w |-> IF mt # "none" THEN EffectWidth(mt, target_size[1], li, lt)
               ELSE target_size[1],
         h |-> target_size[2],
         pixels |-> NormalizeFrame(IF mt # "none" THEN Transformed(img, mt, li, lt)
                                   ELSE img)]

\* one pass of the frame loop: synthesize and writer.write.  A writer that is
\* not opened ignores the frame; an opened one takes a frame of its own size,
\* and drops a frame of another size or raises; a write can also fail on its
\* own, silently or with an error.
WriteFrame ==
    /\ pc = "frames"
    /\ frame_idx \in FrameRange(total_frames)
    /\ LET f == SynthFrame(frame_idx)
           fits == f.w = target_size[1] /\ f.h = target_size[2]
       IN  \/ /\ writer = "open" /\ fits
              /\ log' = Append(log, Event("write", img_idx, frame_idx, f.w, f.h, TRUE))
              /\ frame_idx' = frame_idx + 1
              /\ UNCHANGED <<pc, faults>>
           \/ /\ writer = "unopened" \/ ~fits
              /\ log' = Append(log, Event("write", img_idx, frame_idx, f.w, f.h, FALSE))
              /\ frame_idx' = frame_idx + 1
              /\ UNCHANGED <<pc, faults>>
           \/ /\ writer = "open" /\ ~fits
              /\ log' = Append(log, Event("write", img_idx, frame_idx, f.w, f.h, FALSE))
              /\ pc' = "raised"
              /\ UNCHANGED <<frame_idx, faults>>
           \/ /\ writer = "open" /\ fits /\ faults < MaxFaults
              /\ faults' = faults + 1
              /\ log' = Append(log, Event("write", img_idx, frame_idx, f.w, f.h, FALSE))
              /\ \/ frame_idx' = frame_idx + 1 /\ UNCHANGED pc
                 \/ pc' = "raised" /\ UNCHANGED frame_idx
    /\ written' = Append(written, [img |-> img_idx, idx |-> frame_idx,
                                    effect |-> SynthFrame(frame_idx).effect,
                                    pixels |-> SynthFrame(frame_idx).pixels])
    /\ UNCHANGED <<inputs, app, img, JOBS, quality, total_frames, motion_types, img_idx, writer,
                   file_exists, created_videos, callbacks, result>>

\* after the last frame: release, os.path.getsize (raises when there is no
\* file), record the video, report progress
FinishImage ==
    /\ pc = "frames"
    /\ frame_idx \notin FrameRange(total_frames)
    /\ log' = Append(log, Event("release", img_idx, 0, target_size[1], target_size[2], writer = "open"))
    /\ writer' = "none"
    /\ IF file_exists
       THEN /\ created_videos' = Append(created_videos,
                    [src |-> img_idx, path |-> output_path, quality |-> quality,
                     resolution |-> target_size, motion_effects |-> motion_types])
            /\ callbacks' = Append(callbacks, <<CallbackCurrent(img_idx), Len(images)>>)
            /\ JOBS' = IF caller = "batch_worker"
                       THEN [JOBS EXCEPT !.progress =
                                JobProgress(CallbackCurrent(img_idx), Len(images))]
                       ELSE JOBS
            /\ img_idx' = img_idx + 1
            /\ pc' = "loop"
       ELSE /\ pc' = "raised"
            /\ UNCHANGED <<created_videos, callbacks, JOBS, img_idx>>
    /\ UNCHANGED <<inputs, app, pixels, quality, total_frames, motion_types, frame_idx, file_exists,
                   faults, result>>

\* every image handled: return (created_videos, metadata)
ReturnResult ==
    /\ pc = "loop"
    /\ img_idx >= Len(images)
    /\ result' = [shape |-> "pair", videos |-> created_videos,
                  metadata |-> <<[videos_created |-> Len(created_videos),
                                  quality |-> quality,
                                  motion_effects |-> motion_types]>>]
    /\ pc' = "returned"
    /\ UNCHANGED <<inputs, app, pixels, JOBS, quality, total_frames, motion_types, img_idx, frame_idx,
                   writer, file_exists, created_videos, callbacks, log, faults>>

Next ==
    \/ batch_worker_run
    \/ batch_worker_done
    \/ batch_worker_except
    \/ ReturnEmpty
    \/ Prepare
    \/ SkipImage
    \/ OpenWriter
    \/ WriteFrame
    \/ FinishImage
    \/ ReturnResult

Spec == Init /\ [][Next]_vars

\* ================================================================ claims
Prepared == motion_types # <<>>
PlanLen == Len(motion_types)
Segments == 0..(PlanLen - 1)
SegStart(seg) == segment_start(seg, total_frames, PlanLen)
SegEnd(seg) == segment_end(seg, total_frames, PlanLen)
Writes == {k \in 1..Len(log) : log[k].op = "write"}
Readable(kind) == kind = "cv2" \/ (kind = "pil" /\ PIL_AVAILABLE)
Returned == pc \in {"returned", "exit"} /\ result.shape # "none"

\* C1: for total_frames >= 1 and a plan of one to three effects, the ranges
\* [segment_start, segment_end) follow one another without gap or overlap,
\* every frame index of [0, total_frames) lies in exactly one of them, and the
\* last one ends at total_frames.
C1_SegmentsPartition ==
    (Prepared /\ total_frames >= 1) =>
        /\ PlanLen \in 1..3
        /\ SegStart(0) = 0
        /\ \A seg \in Segments : SegStart(seg) <= SegEnd(seg)
        /\ \A seg \in Segments : seg + 1 \in Segments => SegEnd(seg) = SegStart(seg + 1)
        /\ SegEnd(PlanLen - 1) = total_frames
        /\ \A i \in 0..(total_frames - 1) :
              Cardinality({seg \in Segments : SegStart(seg) <= i /\ i < SegEnd(seg)}) = 1

\* a plan of three effects over five frames, all frames written
C1_Witness ==
    /\ pc = "frames"
    /\ total_frames = 5
    /\ PlanLen = 3
    /\ frame_idx = total_frames

\* C2: every frame handed to the writer lies in the range of the segment chosen
\* for it, and an effect is called with a local total >= 1, a local index in
\* [0, local total) and so a progress in [0,1].
C2_EffectCallInRange ==
    \A k \in Writes :
        LET f == SynthFrame(log[k].idx)
        IN  /\ SegStart(f.seg) <= log[k].idx
            /\ log[k].idx < SegEnd(f.seg)
            /\ f.effect # "none" =>
                  /\ f.local_total >= 1
                  /\ 0 <= f.local_idx
                  /\ f.local_idx < f.local_total
                  /\ f.local_idx <= ProgressDen(f.local_total)

\* C3: every frame handed to a video's writer has the width and the height of
\* the selected quality preset.
C3_FramesHavePresetSize ==
    \A k \in Writes :
        /\ log[k].w = QUALITY_PRESETS[quality][1]
        /\ log[k].h = QUALITY_PRESETS[quality][2]

\* C4: for each decoded image the driver constructs one writer, calls
\* writer.write once for each frame index 0, 1, ..., total_frames-1 in this
\* order, total_frames being floor(duration * fps), and then releases the
\* writer; the writer of the next image is constructed only after that.
C4_WriterCallsInOrder ==
    /\ Prepared => total_frames = (video_duration * fps) \div 2
    /\ \A k \in 1..Len(log) :
          LET e == log[k]
          IN  /\ e.op = "open" =>
                    k = 1 \/ (log[k - 1].op = "release" /\ log[k - 1].img < e.img)
              /\ e.op = "write" =>
                    /\ k > 1
                    /\ log[k - 1].img = e.img
                    /\ IF e.idx = 0 THEN log[k - 1].op = "open"
                       ELSE log[k - 1].op = "write" /\ log[k - 1].idx = e.idx - 1
              /\ e.op = "release" =>
                    /\ k > 1
                    /\ log[k - 1].img = e.img
                    /\ IF total_frames = 0 THEN log[k - 1].op = "open"
                       ELSE log[k - 1].op = "write" /\ log[k - 1].idx = total_frames - 1
    /\ (Returned /\ images # <<>>) =>
          \A i \in 1..Len(images) :
              Readable(images[i]) =>
                  /\ Cardinality({k \in 1..Len(log) : log[k].op = "open" /\ log[k].img = i - 1}) = 1
                  /\ Cardinality({k \in 1..Len(log) : log[k].op = "release" /\ log[k].img = i - 1}) = 1

\* two images converted, three frames each, and the call has returned
C4_Witness ==
    /\ Returned
    /\ total_frames >= 2
    /\ Cardinality({k \in 1..Len(log) : log[k].op = "release"}) = 2

\* the readable images among the first n, as 0-based positions, in order
RECURSIVE ReadableUpTo(_)
ReadableUpTo(n) ==
    IF n = 0 THEN <<>>
    ELSE IF Readable(images[n]) THEN Append(ReadableUpTo(n - 1), n - 1)
         ELSE ReadableUpTo(n - 1)

Sources(videos) == [k \in 1..Len(videos) |-> videos[k].src]

\* C5: with images in the input directory, an image that fails to decode
\* never aborts the batch; the result holds one artifact for each decoded
\* image and none for a failed one, in the order of the input, and
\* videos_created is the length of the list.
C5_DecodeFailureSkipped ==
    /\ Prepared => Sources(created_videos) = ReadableUpTo(Min(img_idx, Len(images)))
    /\ (Returned /\ images # <<>>) =>
          /\ result.shape = "pair"
          /\ Sources(result.videos) = ReadableUpTo(Len(images))
          /\ result.metadata[1].videos_created = Len(result.videos)
    /\ pc = "raised" => (img_idx < Len(images) /\ Readable(images[img_idx + 1]))

\* the first of two images is unreadable, the second one is converted
C5_Witness ==
    /\ Returned
    /\ Len(images) = 2
    /\ ~Readable(images[1])
    /\ Readable(images[2])
    /\ Sources(result.videos) = <<1>>

\* C6 as stated: the callback is called once per converted image, never for a
\* skipped one, and its first argument is the number of images converted so
\* far: 1 on the first call, one more on each call.
C6_CallbackCountsCompleted ==
    /\ Len(callbacks) <= Len(created_videos)
    /\ pc = "loop" => Len(callbacks) = Len(created_videos)
    /\ \A k \in 1..Len(callbacks) : callbacks[k][1] = k

\* C6 amended: the callback is called once per converted image, never for a
\* skipped one; its first argument is the 1-based position of that image in the
\* input enumeration (skipped images counted), so it grows strictly, is at
\* least the number of images converted so far, equals that number when no
\* earlier image was skipped, and is total_count on the last image; the second
\* argument is total_count.
C6_CallbackReportsPosition ==
    /\ Len(callbacks) = Len(created_videos)
    /\ \A k \in 1..Len(callbacks) :
          /\ callbacks[k] = <<created_videos[k].src + 1, Len(images)>>
          /\ callbacks[k][1] >= k
          /\ k > 1 => callbacks[k - 1][1] < callbacks[k][1]
          /\ (\A i \in 1..callbacks[k][1] : Readable(images[i])) => callbacks[k][1] = k
    /\ (Returned /\ images # <<>> /\ \A i \in 1..Len(images) : Readable(images[i])) =>
          /\ Len(callbacks) = Len(images)
          /\ callbacks[Len(callbacks)][1] = Len(images)

\* the first image is skipped and the callback of the second reports 2
C6_Witness ==
    /\ Len(images) = 2
    /\ ~Readable(images[1])
    /\ callbacks = << <<2, 2>> >>

\* C7: with no image in the input directory the call returns a pair of an
\* empty video list and a metadata record with videos_created = 0, and the
\* worker that unpacks it ends the job as done.
C7_EmptyInputReturnsPair ==
    (images = <<>> /\ Returned) =>
        /\ result.shape = "pair"
        /\ result.videos = <<>>
        /\ result.metadata # <<>>
        /\ result.metadata[1].videos_created = 0
        /\ (pc = "exit" => JOBS.status = "done")

\* C8: when the writer of an image could not be opened or one of its writes
\* failed, no artifact is recorded for the image and the call does not return
\* a result.
C8_EncoderFailurePropagates ==
    \A k \in 1..Len(log) :
        (log[k].op \in {"open", "write"} /\ ~log[k].ok) =>
            /\ \A v \in 1..Len(created_videos) : created_videos[v].src # log[k].img
            /\ result.shape = "none"

\* C9: when a recognized identifier occurs anywhere in the input list, the
\* effective plan contains a recognized identifier of the input (the fallback
\* <<"none">> stands only for an input without any).
C9_RecognizedSurvives ==
    (Prepared /\ \E k \in 1..Len(arg.val) : Recognized(arg.val[k])) =>
        \E j \in 1..Len(motion_types) :
            /\ Recognized(motion_types[j])
            /\ \E k \in 1..Len(arg.val) : arg.val[k] = motion_types[j]

\* s is t with entries left out
RECURSIVE IsSubseq(_, _)
IsSubseq(s, t) ==
    IF s = <<>> THEN TRUE
    ELSE IF t = <<>> THEN FALSE
    ELSE IF Head(s) = Head(t) THEN IsSubseq(Tail(s), Tail(t))
    ELSE IsSubseq(s, Tail(t))

\* C10: the effective plan has one to three entries, all recognized, in the
\* order of the input (or is the fallback <<"none">>); a list of more than
\* three recognized identifiers yields its first three.
C10_PlanWellFormed ==
    Prepared =>
        /\ Len(motion_types) \in 1..3
        /\ \A j \in 1..Len(motion_types) : Recognized(motion_types[j])
        /\ IsSubseq(motion_types, arg.val) \/ motion_types = <<"none">>
        /\ (/\ arg.kind = "list"
            /\ Len(arg.val) > 3
            /\ \A k \in 1..Len(arg.val) : Recognized(arg.val[k])) =>
               motion_types = SubSeq(arg.val, 1, 3)

\* four recognized identifiers were passed and three are kept
C10_Witness ==
    /\ Prepared
    /\ arg.kind = "list"
    /\ Len(arg.val) = 4
    /\ \A k \in 1..4 : Recognized(arg.val[k])
    /\ motion_types = SubSeq(arg.val, 1, 3)
    /\ motion_types[1] # motion_types[2]

\* C11: a quality name outside the preset table is handled as "1080p"
\* everywhere: the writer is set up for 1920x1080, every frame handed to it is
\* 1920x1080, and quality, resolution and file name of each artifact say
\* 1080p / 1920x1080; a name of the table gets the size of its entry.
C11_UnknownQualityIs1080p ==
    Prepared =>
        /\ quality_name \in {"4K", "1080p", "720p", "480p", "360p"} =>
              /\ quality = quality_name
              /\ quality_name = "4K" => target_size = <<3840, 2160>>
              /\ quality_name = "1080p" => target_size = <<1920, 1080>>
              /\ quality_name = "720p" => target_size = <<1280, 720>>
              /\ quality_name = "480p" => target_size = <<854, 480>>
              /\ quality_name = "360p" => target_size = <<640, 360>>
        /\ quality_name \notin {"4K", "1080p", "720p", "480p", "360p"} =>
              /\ quality = "1080p"
              /\ \A k \in 1..Len(log) : log[k].w = 1920 /\ log[k].h = 1080
              /\ \A v \in 1..Len(created_videos) :
                    /\ created_videos[v].quality = "1080p"
                    /\ created_videos[v].resolution = <<1920, 1080>>
                    /\ created_videos[v].path.quality = "1080p"

\* pixel values in the three-channel layout of a frame
ThreeChannels(px) == IF Len(px) = 1 THEN <<px[1], px[1], px[1]>> ELSE px

\* C12: a frame whose segment has the effect 'none' (every frame, under the
\* plan ['none']) carries the pixels of the resized source, and the resized
\* source stays what decoding and resizing made it while frames are written.
C12_NoneFrameIsSource ==
    pc = "frames" =>
        /\ img = Resized(DecodeBuffer(files[img_idx + 1], images[img_idx + 1]))
        /\ \A k \in 1..Len(written) :
              (written[k].img = img_idx /\ written[k].effect = "none") =>
                  /\ written[k].pixels.by = "source"
                  /\ written[k].pixels.px = ThreeChannels(img.px)

\* C14: two different source images of one run never get the same output
\* path, so there are as many output files as artifacts.
C14_DistinctOutputPaths ==
    /\ \A v1 \in 1..Len(created_videos) : \A v2 \in 1..Len(created_videos) :
          v1 # v2 => created_videos[v1].path # created_videos[v2].path
    /\ Cardinality({created_videos[v].path : v \in 1..Len(created_videos)})
          = Len(created_videos)

\* ====================================================== app.py, two requests
\* The routes and the worker threads of app.py, each assignment to the job
\* registry a step of its own; the converter call of a worker is followed
\* image by image.  JOBS is here the whole registry, a function of job ids.

\* what the input directories hold: files in sorted order with the way each
\* decodes
Entry(base, ext, kind) == [base |-> base, ext |-> ext, kind |-> kind]
InputDirs == {"Input", "Photos", "Empty"}
DirListing(dir) ==
    CASE dir = "Input"  -> <<Entry("a", "jpg", "cv2")>>
      [] dir = "Photos" -> <<Entry("a", "png", "cv2"), Entry("b", "jpg", "unreadable")>>
      [] dir = "Empty"  -> <<>>

\* a JSON value for input_dir that is no string: os.path.isabs raises TypeError
NotAPath == "<number>"

\* the JSON bodies posted to /batch-start
Requests ==
    [input_dir : InputDirs \cup {NotAPath},
     motion_types : {StrArg("zoom-in"), ListArg(<<"none">>)},
     quality : {"360p"}]

\* the job id batch_start derives from the clock
JobId(t) == t

Job(id) == JOBS[id]

SetJob(id, job) == [i \in DOMAIN JOBS \cup {id} |-> IF i = id THEN job ELSE JOBS[i]]

LogStatus(id, st) ==
    [i \in DOMAIN status_log \cup {id} |->
        IF i = id THEN (IF i \in DOMAIN status_log THEN Append(status_log[i], st) ELSE <<st>>)
        ELSE status_log[i]]

converter_vars == <<caller, images, PIL_AVAILABLE, arg, video_duration, fps, quality, pc,
                    total_frames, motion_types, img_idx, frame_idx, writer, file_exists,
                    created_videos, callbacks, log, faults, result, files, quality_name,
                    img, written>>

InitJobs ==
    /\ caller = "batch_worker"
    /\ JOBS = <<>>
    /\ images = <<>>
    /\ PIL_AVAILABLE = TRUE
    /\ arg = ListArg(<<>>)
    /\ video_duration = 1
    /\ fps = 1
    /\ quality = "1080p"
    /\ pc = "exit"
    /\ total_frames = 0
    /\ motion_types = <<>>
    /\ img_idx = 0
    /\ frame_idx = 0
    /\ writer = "none"
    /\ file_exists = FALSE
    /\ created_videos = <<>>
    /\ callbacks = <<>>
    /\ log = <<>>
    /\ faults = 0
    /\ result = NoResult
    /\ files = <<>>
    /\ quality_name = "1080p"
    /\ img = NoBuffer
    /\ written = <<>>
    /\ AppIdle

\* the clock advances
Tick ==
    /\ now < MaxClock
    /\ now' = now + 1
    /\ UNCHANGED <<converter_vars, JOBS, threads, response, status_log>>

\* POST /batch-start: wrap a string plan, take the job id from the clock,
\* store the job as queued and start its worker thread
batch_start ==
    \E req \in Requests : \E t \in DOMAIN threads :
        /\ threads[t].pc = "unborn"
        /\ \A u \in DOMAIN threads : u < t => threads[u].pc # "unborn"
        /\ JOBS' = SetJob(JobId(now),
                     [status |-> "queued", progress |-> 0, output |-> <<>>,
                      metadata |-> <<>>, message |-> "Job queued",
                      motion_types |-> req.motion_types.val, quality |-> req.quality])
        /\ status_log' = LogStatus(JobId(now), "queued")
        /\ threads' = [threads EXCEPT ![t] =
                         [pc |-> "start", job_id |-> JobId(now), input_dir |-> req.input_dir,
                          motion_types |-> req.motion_types.val, quality |-> req.quality,
                          listing |-> <<>>, idx |-> 0, plan |-> <<>>, path |-> "none",
                          videos |-> <<>>, shape |-> "none", failed |-> FALSE]]
        /\ UNCHANGED <<converter_vars, now, response>>

\* batch_worker up to the call: resolve the input path (TypeError for a value
\* that is no string), mark the job running
worker_run(t) ==
    /\ threads[t].pc = "start"
    /\ IF threads[t].input_dir = NotAPath
       THEN /\ threads' = [threads EXCEPT ![t].pc = "raised"]
            /\ UNCHANGED <<JOBS, status_log>>
       ELSE /\ threads' = [threads EXCEPT ![t].pc = "call"]
            /\ JOBS' = SetJob(threads[t].job_id, [Job(threads[t].job_id) EXCEPT !.status = "running"])
            /\ status_log' = LogStatus(threads[t].job_id, "running")
    /\ UNCHANGED <<converter_vars, now, response>>

\* the converter up to its image loop: return [] for an empty directory,
\* otherwise fix quality and plan
convert_begin(t) ==
    /\ threads[t].pc = "call"
    /\ LET listing == DirListing(threads[t].input_dir)
       IN  IF listing = <<>>
           THEN threads' = [threads EXCEPT ![t].pc = "returned", ![t].shape = "list"]
           ELSE threads' = [threads EXCEPT ![t].pc = "image", ![t].listing = listing,
                                           ![t].idx = 0,
                                           ![t].quality = ResolveQuality(threads[t].quality),
                                           ![t].plan = NormalizePlan(ListArg(threads[t].motion_types))]
    /\ UNCHANGED <<converter_vars, JOBS, now, response, status_log>>

\* an image no decoder reads
convert_skip(t) ==
    /\ threads[t].pc = "image"
    /\ threads[t].idx < Len(threads[t].listing)
    /\ ~Decodes(threads[t].listing[threads[t].idx + 1].kind, PIL_AVAILABLE)
    /\ threads' = [threads EXCEPT ![t].idx = @ + 1]
    /\ UNCHANGED <<converter_vars, JOBS, now, response, status_log>>

\* the VideoWriter of the next image is constructed on its output path in the
\* one output directory of the application, or the encoder raises
convert_open(t) ==
    /\ threads[t].pc = "image"
    /\ threads[t].idx < Len(threads[t].listing)
    /\ Decodes(threads[t].listing[threads[t].idx + 1].kind, PIL_AVAILABLE)
    /\ \/ threads' = [threads EXCEPT ![t].pc = "writing",
                         ![t].path = OutputPath("Output", threads[t].listing[threads[t].idx + 1],
                                                threads[t].plan, threads[t].quality)]
       \/ threads' = [threads EXCEPT ![t].pc = "raised"]
    /\ UNCHANGED <<converter_vars, JOBS, now, response, status_log>>

\* the frames are written, the writer is released, the video recorded and the
\* progress callback stores the job's progress
convert_finish(t) ==
    /\ threads[t].pc = "writing"
    /\ threads' = [threads EXCEPT ![t].pc = "image", ![t].idx = @ + 1,
                                  ![t].videos = Append(@, threads[t].path),
                                  ![t].path = "none"]
    /\ JOBS' = SetJob(threads[t].job_id,
                 [Job(threads[t].job_id) EXCEPT !.progress =
                     JobProgress(CallbackCurrent(threads[t].idx), Len(threads[t].listing))])
    /\ UNCHANGED <<converter_vars, now, response, status_log>>

\* the converter returns (created_videos, metadata)
convert_return(t) ==
    /\ threads[t].pc = "image"
    /\ threads[t].idx >= Len(threads[t].listing)
    /\ threads' = [threads EXCEPT ![t].pc = "returned", ![t].shape = "pair"]
    /\ UNCHANGED <<converter_vars, JOBS, now, response, status_log>>

\* videos, metadata = ...: ValueError for a value that is no pair, else the
\* status becomes 'done'
worker_unpack(t) ==
    /\ threads[t].pc = "returned"
    /\ IF threads[t].shape = "pair"
       THEN /\ threads' = [threads EXCEPT ![t].pc = "set_progress"]
            /\ JOBS' = SetJob(threads[t].job_id, [Job(threads[t].job_id) EXCEPT !.status = "done"])
            /\ status_log' = LogStatus(threads[t].job_id, "done")
       ELSE /\ threads' = [threads EXCEPT ![t].pc = "raised"]
            /\ UNCHANGED <<JOBS, status_log>>
    /\ UNCHANGED <<converter_vars, now, response>>

\* JOBS[job_id]['progress'] = 100
worker_progress(t) ==
    /\ threads[t].pc = "set_progress"
    /\ threads' = [threads EXCEPT ![t].pc = "set_output"]
    /\ JOBS' = SetJob(threads[t].job_id, [Job(threads[t].job_id) EXCEPT !.progress = 100])
    /\ UNCHANGED <<converter_vars, now, response, status_log>>

\* JOBS[job_id]['output'] = videos
worker_output(t) ==
    /\ threads[t].pc = "set_output"
    /\ threads' = [threads EXCEPT ![t].pc = "set_metadata"]
    /\ JOBS' = SetJob(threads[t].job_id, [Job(threads[t].job_id) EXCEPT !.output = threads[t].videos])
    /\ UNCHANGED <<converter_vars, now, response, status_log>>

\* JOBS[job_id]['metadata'] = metadata, then the message
worker_metadata(t) ==
    /\ threads[t].pc = "set_metadata"
    /\ threads' = [threads EXCEPT ![t].pc = "exit"]
    /\ JOBS' = SetJob(threads[t].job_id,
                 [Job(threads[t].job_id) EXCEPT
                     !.metadata = <<[videos_created |-> Len(threads[t].videos)]>>,
                     !.message = "Successfully created"])
    /\ UNCHANGED <<converter_vars, now, response, status_log>>

\* except Exception: status 'error' and the message
worker_except(t) ==
    /\ threads[t].pc = "raised"
    /\ threads' = [threads EXCEPT ![t].pc = "exit", ![t].failed = TRUE]
    /\ JOBS' = SetJob(threads[t].job_id,
                 [Job(threads[t].job_id) EXCEPT !.status = "error", !.message = "exception"])
    /\ status_log' = LogStatus(threads[t].job_id, "error")
    /\ UNCHANGED <<converter_vars, now, response>>

\* GET /status/<job_id>
status ==
    \E id \in 0..MaxClock :
        /\ response' =
              IF id \notin DOMAIN JOBS THEN [code |-> 404]
              ELSE [code |-> 200, status |-> Job(id).status, progress |-> Job(id).progress,
                    output_count |-> Len(Job(id).output),
                    metadata |-> (Job(id).status = "done" /\ Job(id).metadata # <<>>)]
        /\ UNCHANGED <<converter_vars, JOBS, now, threads, status_log>>

WorkerRun == \E t \in DOMAIN threads : worker_run(t)
ConvertBegin == \E t \in DOMAIN threads : convert_begin(t)
ConvertSkip == \E t \in DOMAIN threads : convert_skip(t)
ConvertOpen == \E t \in DOMAIN threads : convert_open(t)
ConvertFinish == \E t \in DOMAIN threads : convert_finish(t)
ConvertReturn == \E t \in DOMAIN threads : convert_return(t)
WorkerUnpack == \E t \in DOMAIN threads : worker_unpack(t)
WorkerProgress == \E t \in DOMAIN threads : worker_progress(t)
WorkerOutput == \E t \in DOMAIN threads : worker_output(t)
WorkerMetadata == \E t \in DOMAIN threads : worker_metadata(t)
WorkerExcept == \E t \in DOMAIN threads : worker_except(t)

NextJobs ==
    \/ Tick
    \/ batch_start
    \/ WorkerRun
    \/ ConvertBegin
    \/ ConvertSkip
    \/ ConvertOpen
    \/ ConvertFinish
    \/ ConvertReturn
    \/ WorkerUnpack
    \/ WorkerProgress
    \/ WorkerOutput
    \/ WorkerMetadata
    \/ WorkerExcept
    \/ status

SpecJobs == InitJobs /\ [][NextJobs]_vars

\* ------------------------------------------------------------------ C13
\* the worker is between its start and its exit
Running(t) == threads[t].pc \notin {"unborn", "exit"}

\* the output paths a worker has opened a VideoWriter on
Touched(t) ==
    IF threads[t].pc = "unborn" THEN {}
    ELSE {threads[t].videos[k] : k \in 1..Len(threads[t].videos)}
         \cup (IF threads[t].pc = "writing" THEN {threads[t].path} ELSE {})

\* C13: two jobs that run concurrently in their worker threads write no
\* output file path in common, whatever their input directory, Motion Plan
\* and quality.
C13_JobsWriteOwnFiles ==
    \A t \in DOMAIN threads : \A u \in DOMAIN threads :
        (Running(t) /\ Running(u) /\ threads[t].job_id # threads[u].job_id)
            => Touched(t) \cap Touched(u) = {}

\* ------------------------------------------------------------------ C15
\* the worker threads started for a job id
Holders(id) == {t \in DOMAIN threads : threads[t].pc # "unborn" /\ threads[t].job_id = id}

\* queued, then running, then one terminal status, or queued then error
ForwardTrails ==
    {<<"queued">>, <<"queued", "running">>, <<"queued", "error">>,
     <<"queued", "running", "done">>, <<"queued", "running", "error">>}

\* C15: the status of a job id only moves forward from queued to running to
\* one terminal status, done or error, or from queued to error, and stays
\* there; a batch-level failure ends in status error with a message; status
\* done implies progress 100 with the output list and the metadata recorded.
\* Judged on the job ids that one request holds.
C15_StatusMovesForward ==
    \A id \in DOMAIN JOBS : \A t \in Holders(id) :
        Holders(id) = {t} =>
            /\ status_log[id] \in ForwardTrails
            /\ Job(id).status = status_log[id][Len(status_log[id])]
            /\ (threads[t].pc = "exit" /\ threads[t].failed)
                   => (Job(id).status = "error" /\ Job(id).message = "exception")
            /\ Job(id).status = "done"
                   => /\ Job(id).progress = 100
                      /\ Job(id).output = threads[t].videos
                      /\ Job(id).metadata # <<>>

====
